---- MODULE Spec2Model ----
(***************************************************************************)
(* State-machine model of dp_accounting/rdp/rdp_privacy_accountant.py:     *)
(* the RDP accountant (orders, accumulated RDP vector, neighboring         *)
(* relation), its event composer, the mechanism RDP computations and the   *)
(* RDP -> (epsilon, delta) converters.                                     *)
(*                                                                         *)
(* Numbers.  A value is a record [k, n, d, sym]:                           *)
(*   k = "fin" : the real number n/d (in lowest terms, d > 0) plus the     *)
(*               symbolic part sym, a bag of atoms.  An atom stands for    *)
(*               one value of the series _compute_log_a(..)/(alpha-1) or   *)
(*               _compute_rdp_sample_wor_gaussian_int(..)/(alpha-1): a     *)
(*               finite non-negative real fixed by its arguments whose     *)
(*               magnitude the model does not evaluate;                    *)
(*   k = "inf" / "ninf" / "nan" : IEEE +infinity, -infinity, NaN.          *)
(* Arithmetic follows IEEE 754 on the special values (0 * inf = nan,       *)
(* inf - inf = nan, every comparison with nan is false).  On the rational  *)
(* part it is the arithmetic of reals when float_bits = 0, and binary      *)
(* floating point with a significand of float_bits bits, rounding to       *)
(* nearest, ties to even, when float_bits > 0 (a double has 53).           *)
(***************************************************************************)
EXTENDS Integers, Sequences, FiniteSets, Bags, TLC

VARIABLES orders, rdp, relation, calls, last, non_private, float_bits

vars == <<orders, rdp, relation, calls, last, non_private, float_bits>>

-----------------------------------------------------------------------------
(* Bounds of the model.                                                    *)

\* largest noise multiplier of a Gaussian or tree-aggregation event
MaxSigma == 3
\* largest count of a SelfComposed event and of a compose call
MaxCount == 2
\* largest step count of a tree-aggregation event
MaxSteps == 3
\* number of calls on the accountant in one behaviour
MaxCalls == 2
\* bits of the significand in the specification with floating-point rounding
FloatBits == 7

-----------------------------------------------------------------------------
(* Exact rational arithmetic: a rational is [n |-> Int, d |-> Nat \ {0}].  *)

Abs(i) == IF i < 0 THEN -i ELSE i

RECURSIVE GCD(_, _)
GCD(a, b) == IF b = 0 THEN a ELSE GCD(b, a % b)

Rat(n, d) ==
  LET g == GCD(Abs(n), Abs(d))
      s == IF d < 0 THEN -1 ELSE 1
  IN  [n |-> s * (n \div g), d |-> s * (d \div g)]

RAdd(p, q) == Rat(p.n * q.d + q.n * p.d, p.d * q.d)
RMul(p, q) == Rat(p.n * q.n, p.d * q.d)
\* 1/p, for p /= 0
RInv(p) == Rat(p.d, p.n)
RLess(p, q) == p.n * q.d < q.n * p.d
RZero == Rat(0, 1)
ROne == Rat(1, 1)

-----------------------------------------------------------------------------
(* Rounding to a significand of p bits.                                    *)

\* a / b for integers a >= 0, b > 0, rounded to nearest, ties to even
RoundDiv(a, b) ==
  LET q == a \div b
      r == a % b
  IN  IF 2 * r > b \/ (2 * r = b /\ q % 2 = 1) THEN q + 1 ELSE q

\* the e with 2^e <= n/d < 2^(e+1), for n, d > 0, searched from e upwards
\* (n >= d) or downwards (n < d)
RECURSIVE ExpUp(_, _, _)
ExpUp(n, d, e) == IF n < d * 2 ^ (e + 1) THEN e ELSE ExpUp(n, d, e + 1)
RECURSIVE ExpDown(_, _, _)
ExpDown(n, d, j) == IF n * 2 ^ j >= d THEN -j ELSE ExpDown(n, d, j + 1)
Exponent(n, d) == IF n >= d THEN ExpUp(n, d, 0) ELSE ExpDown(n, d, 1)

RoundTo(p, r) ==
  IF r.n = 0 THEN r
  ELSE LET s == IF r.n < 0 THEN -1 ELSE 1
           n == Abs(r.n)
           k == Exponent(n, r.d) - p + 1    \* the unit in the last place is 2^k
       IN  IF k >= 0
           THEN Rat(s * RoundDiv(n, r.d * 2 ^ k) * 2 ^ k, 1)
           ELSE Rat(s * RoundDiv(n * 2 ^ (-k), r.d), 2 ^ (-k))

\* the result of one arithmetic operation whose exact value is r
Round(r) == IF float_bits = 0 THEN r ELSE RoundTo(float_bits, r)

-----------------------------------------------------------------------------
(* IEEE-style values.                                                      *)

Fin(n, d) == [k |-> "fin", n |-> Rat(n, d).n, d |-> Rat(n, d).d, sym |-> EmptyBag]
Inf == [k |-> "inf", n |-> 0, d |-> 1, sym |-> EmptyBag]
NInf == [k |-> "ninf", n |-> 0, d |-> 1, sym |-> EmptyBag]
NaN == [k |-> "nan", n |-> 0, d |-> 1, sym |-> EmptyBag]
Zero == Fin(0, 1)
\* the value of one series atom
Atom(a) == [k |-> "fin", n |-> 0, d |-> 1, sym |-> SetToBag({a})]

IsFin(v) == v.k = "fin"
IsNaN(v) == v.k = "nan"
IsInf(v) == v.k = "inf"
\* the rational part of a finite value
RatOf(v) == [n |-> v.n, d |-> v.d]
\* a finite value without symbolic part
IsExact(v) == IsFin(v) /\ v.sym = EmptyBag

\* v == 0 (an atom is a positive quantity; nan == 0 is false)
IsZero(v) == IsExact(v) /\ v.n = 0
\* v < 0 (false for nan)
IsNeg(v) == v.k = "ninf" \/ (IsFin(v) /\ v.n < 0)
\* v >= 0 or v = +inf, the legal RDP values (false for nan)
IsNonNeg(v) == IsInf(v) \/ (IsFin(v) /\ v.n >= 0)

\* a <= b where it follows from the parts: both bags and rational parts are
\* ordered pointwise; false when either is nan
BagLeq(b1, b2) ==
  \A a \in DOMAIN b1 : a \in DOMAIN b2 /\ b1[a] <= b2[a]

Leq(a, b) ==
  CASE IsNaN(a) \/ IsNaN(b) -> FALSE
    [] a.k = "ninf" \/ b.k = "inf" -> TRUE
    [] a.k = "inf" \/ b.k = "ninf" -> FALSE
    [] OTHER -> ~RLess(RatOf(b), RatOf(a)) /\ BagLeq(a.sym, b.sym)

\* a + b
Add(a, b) ==
  CASE IsNaN(a) \/ IsNaN(b) -> NaN
    [] (a.k = "inf" /\ b.k = "ninf") \/ (a.k = "ninf" /\ b.k = "inf") -> NaN
    [] a.k = "inf" \/ b.k = "inf" -> Inf
    [] a.k = "ninf" \/ b.k = "ninf" -> NInf
    [] OTHER ->
         LET r == Round(RAdd(RatOf(a), RatOf(b)))
         IN  [k |-> "fin", n |-> r.n, d |-> r.d, sym |-> a.sym (+) b.sym]

\* c * v for an integer c >= 0 (count * rdp)
Scale(c, v) ==
  CASE IsNaN(v) -> NaN
    [] v.k \in {"inf", "ninf"} -> IF c = 0 THEN NaN ELSE v
    [] OTHER ->
         LET r == Round(Rat(c * v.n, v.d))
         IN  [k |-> "fin", n |-> r.n, d |-> r.d,
              sym |-> IF c = 0 THEN EmptyBag
                      ELSE [a \in DOMAIN v.sym |-> c * v.sym[a]]]

\* elementwise operations of numpy arrays
VecAdd(u, v) == [i \in DOMAIN u |-> Add(u[i], v[i])]
VecScale(c, v) == [i \in DOMAIN v |-> Scale(c, v[i])]

\* v * r for a rational r >= 0 (inf * 0 = nan), as one operation
MulRat(v, r) ==
  CASE IsNaN(v) -> NaN
    [] v.k \in {"inf", "ninf"} -> IF r.n = 0 THEN NaN ELSE v
    [] OTHER ->
         LET p == Round(RMul(RatOf(v), r))
         IN  [k |-> "fin", n |-> p.n, d |-> p.d, sym |-> EmptyBag]

\* a raised exception, as the result of a computation
Err(what) == [k |-> "err", n |-> 0, d |-> 1, sym |-> SetToBag({what})]
IsErr(v) == v.k = "err"
\* an array computation raises as soon as one element does
AnyErr(v) == \E i \in DOMAIN v : IsErr(v[i])
FirstErr(v) == v[CHOOSE i \in DOMAIN v : IsErr(v[i]) /\ \A j \in 1..(i - 1) : ~IsErr(v[j])]

-----------------------------------------------------------------------------
(* Mechanism RDP computations.  A noise multiplier enters them only        *)
(* through its square and the test == 0, so the parameter nm2 is the       *)
(* square of the noise multiplier (a rational); q is a rational; alpha is  *)
(* a value (an order).  Orders reach these functions as elements of the    *)
(* numpy array self._orders, so a division by a zero that involves alpha   *)
(* follows numpy (inf or nan); one between Python floats raises.           *)

\* alpha / (2 * noise_multiplier**2), for nm2 > 0
GaussianRdp(alpha, nm2) == MulRat(alpha, RInv(RMul(Rat(2, 1), nm2)))

\* compute_one_order of _compute_rdp_poisson_subsampled_gaussian
compute_one_order(q, nm2, alpha) ==
  IF IsInf(alpha) \/ nm2.n = 0 THEN Inf
  ELSE IF q.n = 0 THEN Zero
  ELSE IF q = ROne THEN GaussianRdp(alpha, nm2)
  ELSE \* _compute_log_a(q, noise_multiplier, alpha) / (alpha - 1)
       IF alpha = Fin(1, 1) THEN NaN
       ELSE Atom(<<"log_a", q, nm2, alpha>>)

_compute_rdp_poisson_subsampled_gaussian(q, nm2, ords) ==
  [i \in DOMAIN ords |-> compute_one_order(q, nm2, ords[i])]

_compute_rdp_sample_wor_gaussian_scalar(q, nm2, alpha) ==
  IF ~(~RLess(ROne, q) /\ ~RLess(q, RZero) /\ Leq(Fin(1, 1), alpha))
  THEN Err("AssertionError")
  ELSE IF q.n = 0 THEN Zero
  ELSE IF q = ROne
       THEN IF nm2.n = 0 THEN Inf ELSE GaussianRdp(alpha, nm2)
  ELSE IF IsInf(alpha) THEN Inf
  ELSE \* _compute_rdp_sample_wor_gaussian_int(q, sigma, int(alpha)) / (alpha - 1):
       \* the int function returns 0 for alpha == 1, else evaluates
       \* func(2.0) = 2.0 / (2.0 * sigma**2) first
       IF alpha = Fin(1, 1) THEN NaN
       ELSE IF nm2.n = 0 THEN Err("ZeroDivisionError")
       ELSE Atom(<<"wor", q, nm2, alpha>>)

_compute_rdp_sample_wor_gaussian(q, nm2, ords) ==
  [i \in DOMAIN ords |-> _compute_rdp_sample_wor_gaussian_scalar(q, nm2, ords[i])]

\* math.ceil(math.log2(m)) for an integer m >= 1: the least D with 2^D >= m
RECURSIVE CeilLog2From(_, _)
CeilLog2From(m, dd) == IF 2 ^ dd >= m THEN dd ELSE CeilLog2From(m, dd + 1)
CeilLog2(m) == CeilLog2From(m, 0)

RECURSIVE SeqMax(_)
SeqMax(s) ==
  IF Len(s) = 1 THEN s[1]
  ELSE LET m == SeqMax(Tail(s)) IN IF s[1] > m THEN s[1] ELSE m

\* The result is an array over the orders, a raised error, or (for
\* noise_multiplier == 0) the scalar np.inf, which `+=` broadcasts over the
\* RDP vector: the model returns it already broadcast.
_compute_rdp_single_epoch_tree_aggregation(noise_multiplier, step_counts, ords) ==
  IF noise_multiplier < 0 THEN [i \in DOMAIN ords |-> Err("ValueError")]
  ELSE IF noise_multiplier = 0 THEN [i \in DOMAIN ords |-> Inf]
  ELSE IF step_counts = <<>> THEN [i \in DOMAIN ords |-> Err("ValueError")]
  ELSE IF \E j \in DOMAIN step_counts : step_counts[j] < 0
       THEN [i \in DOMAIN ords |-> Err("ValueError")]
  ELSE LET max_depth ==
             SeqMax([j \in DOMAIN step_counts |-> CeilLog2(step_counts[j] + 1)])
       IN  [i \in DOMAIN ords |->
              MulRat(MulRat(ords[i], Rat(max_depth, 1)),
                     RInv(Rat(2 * noise_multiplier * noise_multiplier, 1)))]

-----------------------------------------------------------------------------
(* DP events (dp_event.DpEvent), as records tagged by type.  Event fields  *)
(* are Python numbers: noise multipliers and counts are integers here, a   *)
(* sampling probability is a rational.                                     *)

NoOp == [type |-> "NoOp"]
NonPrivate == [type |-> "NonPrivate"]
Unsupported == [type |-> "Unsupported"]
Gaussian(s) == [type |-> "Gaussian", noise_multiplier |-> s]
PoissonSampled(p, e) ==
  [type |-> "PoissonSampled", sampling_probability |-> p, event |-> e]
SampledWithoutReplacement(n, m, e) ==
  [type |-> "SampledWithoutReplacement", source_dataset_size |-> n,
   sample_size |-> m, event |-> e]
SelfComposed(e, c) == [type |-> "SelfComposed", event |-> e, count |-> c]
Composed(es) == [type |-> "Composed", events |-> es]
SingleEpochTreeAggregation(s, steps) ==
  [type |-> "SingleEpochTreeAggregation", noise_multiplier |-> s,
   step_counts |-> steps]

NeighborRel == {"ADD_OR_REMOVE_ONE", "REPLACE_ONE", "REPLACE_SPECIAL"}

-----------------------------------------------------------------------------
(* _effective_gaussian_noise_multiplier: [k |-> "ok", sq |-> sigma^2], or  *)
(* [k |-> "none"] for the result None, or [k |-> "raise"] for the          *)
(* ZeroDivisionError of sigma**-2 with sigma = 0 and of x**-0.5 with       *)
(* x = 0 (Python numbers).                                                 *)

EffOk(sq) == [k |-> "ok", sq |-> sq]
EffNone == [k |-> "none", sq |-> RZero]
EffRaise == [k |-> "raise", sq |-> RZero]

RECURSIVE _effective_gaussian_noise_multiplier(_)
RECURSIVE EffectiveSum(_, _, _)

\* the loop over event.events from child i on, sum_sigma_inv_sq so far in acc
EffectiveSum(events, i, acc) ==
  IF i > Len(events)
  THEN \* sum_sigma_inv_sq**-0.5
       IF acc.n = 0 THEN EffRaise ELSE EffOk(RInv(acc))
  ELSE LET sigma == _effective_gaussian_noise_multiplier(events[i])
       IN  IF sigma.k /= "ok" THEN sigma
           ELSE IF sigma.sq.n = 0 THEN EffRaise
           ELSE EffectiveSum(events, i + 1, RAdd(acc, RInv(sigma.sq)))

_effective_gaussian_noise_multiplier(event) ==
  IF event.type = "Gaussian"
  THEN EffOk(Rat(event.noise_multiplier * event.noise_multiplier, 1))
  ELSE IF event.type = "Composed"
  THEN EffectiveSum(event.events, 1, RZero)
  ELSE IF event.type = "SelfComposed"
  THEN LET sigma == _effective_gaussian_noise_multiplier(event.event)
       IN  IF sigma.k /= "ok" THEN sigma
           ELSE IF sigma.sq.n = 0 \/ event.count = 0 THEN EffRaise
           ELSE EffOk(RInv(RMul(Rat(event.count, 1), RInv(sigma.sq))))
  ELSE EffNone

-----------------------------------------------------------------------------
(* RdpAccountant._maybe_compose(event, count, do_compose) on the           *)
(* accountant (ords, rel, acc): [ret, rdp] with ret "True" or "False" (the *)
(* value returned) or "raise" (an exception left the call), and rdp the    *)
(* RDP vector the call leaves behind.                                      *)

Ret(r, acc) == [ret |-> r, rdp |-> acc]

\* Accumulate with the count dropped: self._rdp += contribution
AccumulateOnce(count, do_compose, contribution, acc) ==
  IF ~do_compose THEN Ret("True", acc)
  ELSE IF AnyErr(contribution) THEN Ret("raise", acc)
  ELSE Ret("True", VecAdd(acc, contribution))

\* self._rdp += count * contribution, the contribution an array or a raise
Accumulate(count, do_compose, contribution, acc) ==
  IF ~do_compose THEN Ret("True", acc)
  ELSE IF AnyErr(contribution) THEN Ret("raise", acc)
  ELSE Ret("True", VecAdd(acc, VecScale(count, contribution)))

RECURSIVE _maybe_compose(_, _, _, _, _, _)
RECURSIVE ComposeAll(_, _, _, _, _, _, _)

\* all(self._maybe_compose(e, count, do_compose) for e in event.events):
\* the children in order, stopping at the first that returns False
ComposeAll(events, i, count, do_compose, ords, rel, acc) ==
  IF i > Len(events) THEN Ret("True", acc)
  ELSE LET r == _maybe_compose(events[i], count, do_compose, ords, rel, acc)
       IN  IF r.ret /= "True" THEN r
           ELSE ComposeAll(events, i + 1, count, do_compose, ords, rel, r.rdp)

_maybe_compose(event, count, do_compose, ords, rel, acc) ==
  CASE event.type = "NoOp" -> Ret("True", acc)
    [] event.type = "NonPrivate" ->
         IF do_compose
         THEN Ret("True", [i \in DOMAIN acc |-> Add(acc[i], Inf)])
         ELSE Ret("True", acc)
    [] event.type = "SelfComposed" ->
         _maybe_compose(event.event, event.count * count, do_compose,
                        ords, rel, acc)
    [] event.type = "Composed" ->
         ComposeAll(event.events, 1, count, do_compose, ords, rel, acc)
    [] event.type = "Gaussian" ->
         Accumulate(count, do_compose,
           _compute_rdp_poisson_subsampled_gaussian(
             ROne, Rat(event.noise_multiplier * event.noise_multiplier, 1), ords),
           acc)
    [] event.type = "PoissonSampled" ->
         IF rel /= "ADD_OR_REMOVE_ONE" THEN Ret("False", acc)
         ELSE LET gnm == _effective_gaussian_noise_multiplier(event.event)
              IN  IF gnm.k = "raise" THEN Ret("raise", acc)
                  ELSE IF gnm.k = "none" THEN Ret("False", acc)
                  ELSE Accumulate(count, do_compose,
                         _compute_rdp_poisson_subsampled_gaussian(
                           event.sampling_probability, gnm.sq, ords),
                         acc)
    [] event.type = "SampledWithoutReplacement" ->
         IF rel /= "REPLACE_ONE" THEN Ret("False", acc)
         ELSE LET gnm == _effective_gaussian_noise_multiplier(event.event)
              IN  IF gnm.k = "raise" THEN Ret("raise", acc)
                  ELSE IF gnm.k = "none" THEN Ret("False", acc)
                  ELSE Accumulate(count, do_compose,
                         _compute_rdp_sample_wor_gaussian(
                           Rat(event.sample_size, event.source_dataset_size),
                           gnm.sq, ords),
                         acc)
    [] event.type = "SingleEpochTreeAggregation" ->
         IF rel /= "REPLACE_SPECIAL" THEN Ret("False", acc)
         ELSE Accumulate(count, do_compose,
                _compute_rdp_single_epoch_tree_aggregation(
                  event.noise_multiplier, event.step_counts, ords),
                acc)
    [] OTHER -> Ret("False", acc)

-----------------------------------------------------------------------------
(* The converters.  Their arithmetic on finite, non-zero numbers goes      *)
(* through log, exp, log1p and expm1; where the outcome of a step is such  *)
(* a number the model keeps only what is certain about it:                 *)
(*   Some("neg")   a finite number < 0                                     *)
(*   Some("real")  a finite number                                         *)
(*   Some("eps")   a finite number >= 0 (an epsilon that was computed)     *)
(*   Some("delta") a number in (0, 1) (a delta that was computed)          *)
(* Zero, Inf, NInf, NaN, exact rationals and raised errors are exact.      *)
(* The arguments epsilon and delta are rationals, inf or nan.              *)

Some(what) == [k |-> "some", n |-> 0, d |-> 1, sym |-> SetToBag({what})]
One == Fin(1, 1)

\* a < 1 and a > 1.01 for an order
OrderBelowOne(a) == a.k = "ninf" \/ (IsFin(a) /\ a.n < a.d)
OrderAbove101(a) == IsInf(a) \/ (IsFin(a) /\ 100 * a.n > 101 * a.d)

\* Python's min(x, y) on log-deltas of the kinds NInf, Some("neg"), Zero,
\* Some("real"), Inf, NaN: y if y < x else x
PyMinLog(x, y) ==
  CASE IsNaN(x) \/ IsNaN(y) -> x
    [] y.k = "inf" -> x
    [] y.k = "ninf" -> NInf
    [] x.k = "ninf" -> x
    [] OTHER -> \* y is Some("real") and x is Some("neg"): x is Zero only for
                \* r = inf, where y is Inf or NaN
         Some("neg")

\* np.min of a list of log-deltas of the kinds NInf, Some("neg"), Zero, NaN
NpMinLog(l) ==
  IF \E i \in DOMAIN l : IsNaN(l[i]) THEN NaN
  ELSE IF \E i \in DOMAIN l : l[i].k = "ninf" THEN NInf
  ELSE IF \E i \in DOMAIN l : l[i].k = "some" THEN Some("neg")
  ELSE Zero

\* the log-delta of one (order, rdp) pair of _compute_delta
LogDelta(a, r, epsilon) ==
  LET kl == IF IsZero(r) THEN NInf
            ELSE IF IsNaN(r) THEN NaN
            ELSE IF IsInf(r) THEN Zero
            ELSE Some("neg")
      \* r - epsilon + log1p(-1 / a): "nan", "inf", "ninf", or the sign of a
      \* finite number ("pos", "zero", "neg"; "fin" when a is finite, where
      \* log1p(-1 / a) is a finite number < 0 and the sign is not needed)
      t == IF IsNaN(r) \/ IsNaN(epsilon) THEN "nan"
           ELSE IF IsInf(r) THEN (IF IsInf(epsilon) THEN "nan" ELSE "inf")
           ELSE IF IsInf(epsilon) THEN "ninf"
           ELSE IF ~IsInf(a) \/ ~IsExact(r) THEN "fin"
           ELSE IF RLess(RatOf(epsilon), RatOf(r)) THEN "pos"
           ELSE IF RLess(RatOf(r), RatOf(epsilon)) THEN "neg"
           ELSE "zero"
      \* (a - 1) * t - math.log(a)
      rdp_bound ==
        IF IsInf(a)
        THEN (IF t \in {"ninf", "neg"} THEN NInf ELSE NaN)
        ELSE CASE t = "nan" -> NaN
               [] t = "inf" -> Inf
               [] t = "ninf" -> NInf
               [] OTHER -> Some("real")
  IN  IF OrderAbove101(a) THEN PyMinLog(kl, rdp_bound) ELSE kl

_compute_delta(ords, r, epsilon) ==
  IF IsNeg(epsilon) THEN Err("ValueError")
  ELSE IF Len(ords) /= Len(r) THEN Err("ValueError")
  ELSE IF \E i \in DOMAIN ords : OrderBelowOne(ords[i]) \/ IsNeg(r[i])
  THEN Err("ValueError")
  ELSE IF Len(ords) = 0 THEN Err("ValueError")   \* np.min of an empty list
  ELSE LET m == NpMinLog([i \in DOMAIN ords |-> LogDelta(ords[i], r[i], epsilon)])
       IN  \* min(math.exp(m), 1.)
           CASE IsNaN(m) -> NaN
             [] m.k = "ninf" -> Zero
             [] m.k = "some" -> Some("delta")
             [] OTHER -> One

\* the epsilon of one (order, rdp) pair of _compute_epsilon, delta > 0 or
\* nan: Zero, Inf, NaN, Some("real"), or Some("zero or real") where the test
\* delta**2 + expm1(-r) > 0 compares two finite transcendental numbers
Epsilon(a, r, delta) ==
  LET kl == IF IsNaN(delta) \/ IsNaN(r) THEN "no"
            ELSE IF IsInf(delta) THEN "yes"
            ELSE IF IsInf(r) THEN (IF RLess(ROne, RatOf(delta)) THEN "yes" ELSE "no")
            ELSE IF IsZero(r) THEN "yes"
            ELSE IF ~RLess(RatOf(delta), ROne) THEN "yes"
            ELSE "unknown"
      \* r + math.log1p(-1 / a) - math.log(delta * a) / (a - 1)
      formula == IF IsInf(a) \/ IsNaN(delta) \/ IsNaN(r) \/ IsInf(delta) THEN NaN
                 ELSE IF IsInf(r) THEN Inf
                 ELSE Some("real")
      rest == IF OrderAbove101(a) THEN formula ELSE Inf
  IN  CASE kl = "yes" -> Zero
        [] kl = "no" -> rest
        [] OTHER -> IF rest.k = "some" THEN Some("zero or real") ELSE rest

_compute_epsilon(ords, r, delta) ==
  IF IsNeg(delta) THEN Err("ValueError")
  ELSE IF IsZero(delta)
  THEN (IF \A i \in DOMAIN r : IsZero(r[i]) THEN Zero ELSE Inf)
  ELSE IF Len(ords) /= Len(r) THEN Err("ValueError")
  ELSE IF \E i \in DOMAIN ords : OrderBelowOne(ords[i]) \/ IsNeg(r[i])
  THEN Err("ValueError")
  ELSE IF Len(ords) = 0 THEN Err("ValueError")   \* np.min of an empty list
  ELSE LET eps == [i \in DOMAIN ords |-> Epsilon(ords[i], r[i], delta)]
       IN  \* max(0, np.min(eps)): np.min is nan if an element is; max(0, nan) is 0
           IF \E i \in DOMAIN eps : IsNaN(eps[i]) THEN Zero
           ELSE IF \E i \in DOMAIN eps : IsZero(eps[i]) THEN Zero
           ELSE IF \E i \in DOMAIN eps : eps[i].k = "some" THEN Some("eps")
           ELSE Inf

-----------------------------------------------------------------------------
(* The inputs of the model: order grids, events, counts, targets.          *)

\* the orders argument of RdpAccountant.__init__: a prefix of the default
\* grid (orders=None), and a grid with the least order, 1, and with +inf
DefaultOrders == <<Fin(2, 1), Fin(3, 1)>>
OrderGrids == {DefaultOrders, <<Fin(1, 1), Fin(2, 1), Inf>>}

Counts == 0..MaxCount
Half == Rat(1, 2)

GaussianEvents == {Gaussian(s) : s \in 0..MaxSigma}
TreeEvents ==
  {SingleEpochTreeAggregation(s, st) :
     s \in {-1, 0, 1}, st \in {<<>>, <<0>>, <<MaxSteps>>}}
     \ {SingleEpochTreeAggregation(-1, <<>>), SingleEpochTreeAggregation(-1, <<0>>)}
LeafEvents == {NoOp, NonPrivate, Unsupported} \cup GaussianEvents \cup TreeEvents

\* the events inside a sampling event
InnerEvents ==
  {Gaussian(0), Gaussian(1), NoOp, Composed(<<>>),
   Composed(<<Gaussian(1), Gaussian(MaxSigma)>>),
   Composed(<<Gaussian(0), Gaussian(1)>>),
   SelfComposed(Gaussian(1), 0), SelfComposed(Gaussian(1), MaxCount)}
SampledEvents ==
  {PoissonSampled(p, e) : p \in {RZero, Half, ROne}, e \in InnerEvents}
  \cup {SampledWithoutReplacement(2, m, e) :
          m \in 0..2, e \in {Gaussian(0), Gaussian(1), NoOp}}

\* the children of a Composed event
ChildEvents ==
  {Gaussian(1), Gaussian(MaxSigma), NoOp, Unsupported,
   PoissonSampled(Half, Gaussian(1)),
   SingleEpochTreeAggregation(-1, <<MaxSteps>>)}
ComposedEvents ==
  {Composed(<<>>), Composed(<<Gaussian(1)>>)}
  \cup {Composed(<<a, b>>) : a, b \in ChildEvents}
  \cup {Composed(<<Gaussian(1), Composed(<<Gaussian(MaxSigma), Unsupported>>)>>),
        Composed(<<Composed(<<Gaussian(1), Gaussian(MaxSigma)>>), NonPrivate>>)}
SelfComposedEvents ==
  {SelfComposed(e, c) :
     e \in {Gaussian(0), Gaussian(1), NonPrivate, Unsupported,
            SingleEpochTreeAggregation(0, <<MaxSteps>>),
            SingleEpochTreeAggregation(1, <<MaxSteps>>),
            PoissonSampled(Half, Gaussian(1)),
            Composed(<<Gaussian(1), Unsupported>>),
            SelfComposed(Gaussian(1), MaxCount)},
     c \in Counts}

Events ==
  LeafEvents \cup SampledEvents \cup ComposedEvents \cup SelfComposedEvents

\* target_delta and target_epsilon of the queries
Targets == {Fin(-1, 1), Zero, Fin(1, 2), One, Fin(2, 1), Inf}

-----------------------------------------------------------------------------
(* The accountant.  last records the latest call: its operation, its       *)
(* arguments, what it returned ("raise" or an Err value when an exception  *)
(* left it) and the state it started from.                                 *)

State == [orders |-> orders, rdp |-> rdp, relation |-> relation]

\* RdpAccountant.__init__(orders, neighboring_relation)
Construct ==
  /\ orders \in OrderGrids
  /\ rdp = [i \in DOMAIN orders |-> Zero]
  /\ relation \in NeighborRel
  /\ calls = 0
  /\ last = [op |-> "init"]
  /\ non_private = FALSE

\* the accountant in the arithmetic of reals
Init == Construct /\ float_bits = 0

\* supports with do_compose set: self._maybe_compose(event, 0, True)
supports_composing(event) ==
  /\ calls < MaxCalls
  /\ LET r == _maybe_compose(event, 0, TRUE, orders, relation, rdp)
     IN  /\ rdp' = r.rdp
         /\ last' = [op |-> "supports", event |-> event, ret |-> r.ret,
                     pre |-> State]
  /\ calls' = calls + 1
  /\ UNCHANGED <<orders, relation, non_private, float_bits>>

\* RdpAccountant.supports(event)
supports(event) ==
  /\ calls < MaxCalls
  /\ LET r == _maybe_compose(event, 0, FALSE, orders, relation, rdp)
     IN  /\ rdp' = r.rdp
         /\ last' = [op |-> "supports", event |-> event, ret |-> r.ret,
                     pre |-> State]
  /\ calls' = calls + 1
  /\ UNCHANGED <<orders, relation, non_private, float_bits>>

\* RdpAccountant._compose(event, count)
_compose(event, count) ==
  /\ calls < MaxCalls
  /\ LET r == _maybe_compose(event, count, TRUE, orders, relation, rdp)
     IN  /\ rdp' = r.rdp
         /\ last' = [op |-> "compose", event |-> event, count |-> count,
                     ret |-> r.ret, pre |-> State]
         \* history: a NonPrivate event has been composed, and every
         \* compose call since was of a supported event
         /\ non_private' = (r.ret = "True" /\ (non_private \/ event = NonPrivate))
  /\ calls' = calls + 1
  /\ UNCHANGED <<orders, relation, float_bits>>

\* RdpAccountant.get_epsilon(target_delta)
get_epsilon(target_delta) ==
  /\ calls < MaxCalls
  /\ last' = [op |-> "get_epsilon", arg |-> target_delta,
              ret |-> _compute_epsilon(orders, rdp, target_delta),
              pre |-> State]
  /\ calls' = calls + 1
  /\ UNCHANGED <<orders, rdp, relation, non_private, float_bits>>

\* RdpAccountant.get_delta(target_epsilon)
get_delta(target_epsilon) ==
  /\ calls < MaxCalls
  /\ last' = [op |-> "get_delta", arg |-> target_epsilon,
              ret |-> _compute_delta(orders, rdp, target_epsilon),
              pre |-> State]
  /\ calls' = calls + 1
  /\ UNCHANGED <<orders, rdp, relation, non_private, float_bits>>

Next ==
  \/ \E event \in Events : supports(event)
  \/ \E event \in Events, count \in Counts : _compose(event, count)
  \/ \E target_delta \in Targets : get_epsilon(target_delta)
  \/ \E target_epsilon \in Targets : get_delta(target_epsilon)

Spec == Init /\ [][Next]_vars

\* the accountant in floating-point arithmetic
InitFloat == Construct /\ float_bits = FloatBits
SpecFloat == InitFloat /\ [][Next]_vars

-----------------------------------------------------------------------------
(* The converters as functions of their arguments: get_epsilon and         *)
(* get_delta hand self._orders and self._rdp to _compute_epsilon and       *)
(* _compute_delta as they are, so with orders and rdp drawn from all       *)
(* argument arrays (malformed ones included) the two actions are calls of  *)
(* the two functions.                                                      *)

\* largest length of an argument array
MaxLen == 2

ArgOrders ==
  UNION {[1..n -> {Fin(1, 2), One, Fin(2, 1), Inf}] : n \in 0..MaxLen}
ArgRdp ==
  UNION {[1..n -> {Fin(-1, 1), Zero, One, Inf}] : n \in 0..MaxLen}

InitConv ==
  /\ orders \in ArgOrders
  /\ rdp \in ArgRdp
  /\ relation = "ADD_OR_REMOVE_ONE"
  /\ calls = 0
  /\ last = [op |-> "init"]
  /\ non_private = FALSE
  /\ float_bits = 0

NextConv ==
  \/ \E target_delta \in Targets : get_epsilon(target_delta)
  \/ \E target_epsilon \in Targets : get_delta(target_epsilon)

SpecConv == InitConv /\ [][NextConv]_vars

-----------------------------------------------------------------------------
(* The mechanism RDP computations as functions of their arguments, over    *)
(* the order grid drawn at the start.                                      *)

StepCounts == UNION {[1..n -> -1..MaxSteps] : n \in 0..MaxLen}
NoiseMultipliers == -1..MaxSigma
SamplingRates == {RZero, Half, ROne}

call_tree_aggregation(noise_multiplier, step_counts) ==
  /\ calls < MaxCalls
  /\ last' = [op |-> "tree", noise_multiplier |-> noise_multiplier,
              step_counts |-> step_counts,
              ret |-> _compute_rdp_single_epoch_tree_aggregation(
                        noise_multiplier, step_counts, orders)]
  /\ calls' = calls + 1
  /\ UNCHANGED <<orders, rdp, relation, non_private, float_bits>>

call_poisson_subsampled_gaussian(q, noise_multiplier) ==
  /\ calls < MaxCalls
  /\ last' = [op |-> "poisson", q |-> q, noise_multiplier |-> noise_multiplier,
              ret |-> _compute_rdp_poisson_subsampled_gaussian(
                        q, Rat(noise_multiplier * noise_multiplier, 1), orders)]
  /\ calls' = calls + 1
  /\ UNCHANGED <<orders, rdp, relation, non_private, float_bits>>

call_sample_wor_gaussian(q, noise_multiplier) ==
  /\ calls < MaxCalls
  /\ last' = [op |-> "wor", q |-> q, noise_multiplier |-> noise_multiplier,
              ret |-> _compute_rdp_sample_wor_gaussian(
                        q, Rat(noise_multiplier * noise_multiplier, 1), orders)]
  /\ calls' = calls + 1
  /\ UNCHANGED <<orders, rdp, relation, non_private, float_bits>>

NextMech ==
  \/ \E noise_multiplier \in NoiseMultipliers, step_counts \in StepCounts :
        call_tree_aggregation(noise_multiplier, step_counts)
  \/ \E q \in SamplingRates, noise_multiplier \in NoiseMultipliers :
        call_poisson_subsampled_gaussian(q, noise_multiplier)
  \/ \E q \in SamplingRates, noise_multiplier \in NoiseMultipliers :
        call_sample_wor_gaussian(q, noise_multiplier)

SpecMech == Init /\ [][NextMech]_vars

-----------------------------------------------------------------------------
(* Properties.                                                             *)

\* supports(event) returns True, on the accountant as it is
Supported(event) ==
  _maybe_compose(event, 0, FALSE, orders, relation, rdp).ret = "True"
Unsupported_(event) ==
  _maybe_compose(event, 0, FALSE, orders, relation, rdp).ret = "False"

\* C1: a compose call of an unsupported event (supports returns False)
\* leaves the RDP vector equal to the vector before the call.
C1_AllOrNothing ==
  (last.op = "compose" /\ Unsupported_(last.event)) => rdp = last.pre.rdp

\* event composed n times in a row, each with count 1, from the vector acc
RECURSIVE ComposeTimes(_, _, _)
ComposeTimes(event, n, acc) ==
  IF n = 0 THEN acc
  ELSE ComposeTimes(event, n - 1,
         _maybe_compose(event, 1, TRUE, orders, relation, acc).rdp)

\* the leaves of an event tree
RECURSIVE Leaves(_)
RECURSIVE LeavesOf(_, _)
LeavesOf(events, i) ==
  IF i > Len(events) THEN 0 ELSE Leaves(events[i]) + LeavesOf(events, i + 1)
Leaves(event) ==
  CASE event.type = "Composed" -> LeavesOf(event.events, 1)
    [] event.type = "SelfComposed" -> Leaves(event.event)
    [] OTHER -> 1

\* |a - b| of two rationals
RDist(p, q) ==
  LET x == RAdd(p, Rat(-q.n, q.d)) IN Rat(Abs(x.n), x.d)
RMax(p, q) == IF RLess(p, q) THEN q ELSE p

\* u and v are equal up to the rounding of t operations: special values and
\* symbolic parts agree, rational parts within the relative error
\* 2 * t * 2^-float_bits (within 0 in the arithmetic of reals)
CloseTo(u, v, t) ==
  /\ DOMAIN u = DOMAIN v
  /\ \A i \in DOMAIN u :
       /\ u[i].k = v[i].k
       /\ u[i].sym = v[i].sym
       /\ IF float_bits = 0 THEN u[i] = v[i]
          ELSE ~RLess(RMul(Rat(2 * t, 2 ^ float_bits),
                           RMax(RatOf(u[i]), RatOf(v[i]))),
                      RDist(RatOf(u[i]), RatOf(v[i])))

\* the case of C2: a supported event E composed with a count N >= 1
C2_Case ==
  /\ last.op = "compose"
  /\ last.count >= 1
  /\ _maybe_compose(last.event, 0, FALSE, orders, relation, last.pre.rdp).ret
       = "True"

\* C2 as stated: composing E once with count N, composing E N times in a
\* row and composing SelfComposed(E, N) once leave the same RDP vector.
C2_SameVector ==
  C2_Case =>
    /\ rdp = ComposeTimes(last.event, last.count, last.pre.rdp)
    /\ rdp = _maybe_compose(SelfComposed(last.event, last.count), 1, TRUE,
                            orders, relation, last.pre.rdp).rdp

\* C2 amended: composing SelfComposed(E, N) once and composing E once with
\* count N leave exactly the same vector; composing E N times in a row
\* leaves that vector up to floating-point rounding: inf and nan entries are
\* the same, finite entries agree within the rounding of the (N + 1) * L + 1
\* operations involved, L the number of leaves of E.
C2_UpToRounding ==
  C2_Case =>
    /\ CloseTo(rdp, ComposeTimes(last.event, last.count, last.pre.rdp),
               (last.count + 1) * Leaves(last.event) + 1)
    /\ rdp = _maybe_compose(SelfComposed(last.event, last.count), 1, TRUE,
                            orders, relation, last.pre.rdp).rdp

\* a supported event composed with count >= 2 whose result differs, in a
\* finite entry, from the result of composing it count times
C2_Witness ==
  /\ C2_Case
  /\ last.count >= 2
  /\ \E i \in DOMAIN rdp :
       /\ IsFin(rdp[i])
       /\ rdp[i] /= ComposeTimes(last.event, last.count, last.pre.rdp)[i]

\* C3: once a NonPrivate event has been composed, and after any further
\* compose calls of supported events, get_epsilon(delta) is +inf for every
\* delta with 0 <= delta < 1 and get_delta(epsilon) is 1.0 for every finite
\* epsilon >= 0.
C3_NonPrivateForever ==
  non_private =>
    /\ \A delta \in Targets :
         (IsExact(delta) /\ ~IsNeg(delta) /\ RLess(RatOf(delta), ROne))
           => _compute_epsilon(orders, rdp, delta) = Inf
    /\ \A epsilon \in Targets :
         (IsExact(epsilon) /\ ~IsNeg(epsilon))
           => _compute_delta(orders, rdp, epsilon) = One

\* C4: supports, get_epsilon and get_delta leave orders, the RDP vector and
\* the neighboring relation as they were, whether they return or raise.
C4_ReadOnly ==
  last.op \in {"supports", "get_epsilon", "get_delta"} => State = last.pre

\* a supports call that raised, on an accountant with accumulated RDP
C4_Witness ==
  /\ last.op = "supports"
  /\ last.ret = "raise"
  /\ \E i \in DOMAIN rdp : ~IsZero(rdp[i])

\* a nested Composed / SelfComposed structure whose leaves are all Gaussian
RECURSIVE GaussianStructure(_)
GaussianStructure(event) ==
  CASE event.type = "Gaussian" -> TRUE
    [] event.type = "Composed" ->
         \A i \in DOMAIN event.events : GaussianStructure(event.events[i])
    [] event.type = "SelfComposed" -> GaussianStructure(event.event)
    [] OTHER -> FALSE

\* the support predicate of the dispatch table
RECURSIVE SupportPredicate(_, _)
SupportPredicate(event, rel) ==
  CASE event.type \in {"NoOp", "NonPrivate", "Gaussian"} -> TRUE
    [] event.type = "SelfComposed" -> SupportPredicate(event.event, rel)
    [] event.type = "Composed" ->
         \A i \in DOMAIN event.events : SupportPredicate(event.events[i], rel)
    [] event.type = "PoissonSampled" ->
         rel = "ADD_OR_REMOVE_ONE" /\ GaussianStructure(event.event)
    [] event.type = "SampledWithoutReplacement" ->
         rel = "REPLACE_ONE" /\ GaussianStructure(event.event)
    [] event.type = "SingleEpochTreeAggregation" -> rel = "REPLACE_SPECIAL"
    [] OTHER -> FALSE

\* C5: supports(event) returns, without raising, the support predicate of
\* the dispatch table.
C5_SupportsPredicate ==
  last.op = "supports" =>
    last.ret = (IF SupportPredicate(last.event, relation) THEN "True" ELSE "False")

\* C6: the RDP vector is as long as orders, every entry is >= 0 or +inf and
\* is at least what it was before the latest call, and orders and the
\* neighboring relation are what they were.
C6_Invariants ==
  /\ Len(rdp) = Len(orders)
  /\ \A i \in DOMAIN rdp : IsNonNeg(rdp[i])
  /\ last.op /= "init" =>
       /\ \A i \in DOMAIN rdp : Leq(last.pre.rdp[i], rdp[i])
       /\ orders = last.pre.orders
       /\ relation = last.pre.relation

\* a computed delta d is <= the target delta; a delta in (0, 1) whose
\* magnitude is not evaluated is given the benefit of the doubt
DeltaLeq(d, delta) ==
  CASE IsNaN(d) \/ IsErr(d) -> FALSE
    [] d.k = "some" -> TRUE
    [] OTHER -> Leq(d, delta)

\* C7: for every target delta >= 0, epsilon = get_epsilon(delta) satisfies
\* get_delta(epsilon) <= delta (stated for the epsilons 0 and +inf, which
\* the converters compute exactly).
C7_Soundness ==
  \A delta \in Targets :
    ~IsNeg(delta) =>
      LET epsilon == _compute_epsilon(orders, rdp, delta)
      IN  epsilon \in {Zero, Inf}
            => DeltaLeq(_compute_delta(orders, rdp, epsilon), delta)

\* orders and rdp differ in length, or an order is < 1, or an RDP value < 0
MalformedArrays ==
  \/ Len(orders) /= Len(rdp)
  \/ \E i \in DOMAIN orders : OrderBelowOne(orders[i])
  \/ \E i \in DOMAIN rdp : IsNeg(rdp[i])

\* C8: get_delta and get_epsilon raise whenever their target is negative or
\* the arrays are malformed.
C8_ConvertersReject ==
  (last.op \in {"get_delta", "get_epsilon"} /\ (IsNeg(last.arg) \/ MalformedArrays))
    => IsErr(last.ret)

\* C9: the tree-aggregation computation raises whenever the step counts are
\* empty or contain a negative value, or the noise multiplier is negative.
C9_TreeRejects ==
  ( /\ last.op = "tree"
    /\ \/ last.step_counts = <<>>
       \/ \E j \in DOMAIN last.step_counts : last.step_counts[j] < 0
       \/ last.noise_multiplier < 0 )
    => AnyErr(last.ret)

\* C10: for q = 0 and a noise multiplier > 0 the Poisson and the
\* without-replacement computations return 0 at every order of the grid.
C10_ZeroRate ==
  (last.op \in {"poisson", "wor"} /\ last.q = RZero /\ last.noise_multiplier > 0)
    => \A i \in DOMAIN last.ret : last.ret[i] = Zero

\* a nested Composed / SelfComposed structure whose leaves are Gaussian
\* events of noise multiplier > 0 or NoOp events
RECURSIVE LeafTree(_)
LeafTree(event) ==
  CASE event.type = "Gaussian" -> event.noise_multiplier > 0
    [] event.type = "NoOp" -> TRUE
    [] event.type = "Composed" ->
         \A i \in DOMAIN event.events : LeafTree(event.events[i])
    [] event.type = "SelfComposed" -> LeafTree(event.event)
    [] OTHER -> FALSE

\* the sum, over the Gaussian(sigma) leaves of a LeafTree, of
\* m * k1 * ... * km / (2 * sigma^2), m the multiplier the tree is entered with
RECURSIVE LeafCoef(_, _)
RECURSIVE LeafCoefOf(_, _, _)
LeafCoefOf(events, i, m) ==
  IF i > Len(events) THEN RZero
  ELSE RAdd(LeafCoef(events[i], m), LeafCoefOf(events, i + 1, m))
LeafCoef(event, m) ==
  CASE event.type = "Gaussian" ->
         Rat(m, 2 * event.noise_multiplier * event.noise_multiplier)
    [] event.type = "SelfComposed" -> LeafCoef(event.event, m * event.count)
    [] event.type = "Composed" -> LeafCoefOf(event.events, 1, m)
    [] OTHER -> RZero

\* coef * alpha as a quantity of RDP: nothing for coef = 0, +inf at the
\* order +inf otherwise
TimesOrder(coef, alpha) ==
  IF coef = RZero THEN Zero
  ELSE IF IsInf(alpha) THEN Inf
  ELSE LET p == RMul(coef, RatOf(alpha)) IN Fin(p.n, p.d)

\* s in reverse
Reverse(s) == [i \in DOMAIN s |-> s[Len(s) + 1 - i]]

\* C11: composing a tree of Gaussian(sigma > 0) and NoOp leaves with count c
\* adds to the RDP entry of every order alpha the sum over the Gaussian
\* leaves of c * k1 * ... * km * alpha / (2 * sigma^2), k1..km the counts of
\* the SelfComposed nodes above the leaf, and a Composed list composed with
\* its children in reverse order leaves the same vector.
C11_LeafScaling ==
  (last.op = "compose" /\ LeafTree(last.event)) =>
    /\ \A i \in DOMAIN rdp :
         rdp[i] = Add(last.pre.rdp[i],
                      TimesOrder(LeafCoef(last.event, last.count), orders[i]))
    /\ last.event.type = "Composed" =>
         rdp = _maybe_compose(Composed(Reverse(last.event.events)), last.count,
                              TRUE, orders, relation, last.pre.rdp).rdp

\* the number of bits of n >= 0
RECURSIVE BitLength(_)
BitLength(n) == IF n = 0 THEN 0 ELSE 1 + BitLength(n \div 2)

\* D: 0 when every step count is 0, else the bit length of the largest
TreeDepth(step_counts) ==
  LET S == {BitLength(step_counts[j]) : j \in DOMAIN step_counts}
  IN  CHOOSE dd \in S : \A e \in S : e <= dd

\* C12: for non-empty, non-negative step counts and sigma > 0 the
\* tree-aggregation RDP at every order alpha is alpha * D / (2 * sigma^2)
\* (0 when D = 0); for sigma = 0 it is +inf at every order; composing the
\* event with a count under REPLACE_SPECIAL adds count times this value.
C12_TreeFormula ==
  last.op = "tree" =>
    /\ ( /\ last.noise_multiplier > 0
         /\ last.step_counts /= <<>>
         /\ \A j \in DOMAIN last.step_counts : last.step_counts[j] >= 0 )
         => \A i \in DOMAIN orders :
              last.ret[i] =
                TimesOrder(Rat(TreeDepth(last.step_counts),
                               2 * last.noise_multiplier * last.noise_multiplier),
                           orders[i])
    /\ last.noise_multiplier = 0
         => \A i \in DOMAIN orders : last.ret[i] = Inf
    /\ ~AnyErr(last.ret)
         => \A count \in Counts :
              _maybe_compose(
                SingleEpochTreeAggregation(last.noise_multiplier,
                                           last.step_counts),
                count, TRUE, orders, "REPLACE_SPECIAL", rdp).rdp
                = VecAdd(rdp, VecScale(count, last.ret))

\* C13: a compose call that raises, of an event that supports() accepts,
\* leaves the RDP vector equal to the vector before the call.
C13_RaiseLeavesUnchanged ==
  ( /\ last.op = "compose"
    /\ last.ret = "raise"
    /\ _maybe_compose(last.event, 0, FALSE, orders, relation, last.pre.rdp).ret
         = "True" )
    => rdp = last.pre.rdp

====
